---------------------------- MODULE Spec2Model ----------------------------
(***************************************************************************)
(* Model of the customer-reviews pipeline: the orchestrating Lambda        *)
(* handler (fetch -> render -> store per configured product), the fetcher, *)
(* the renderer with its HTML escaping, and the storage writer.            *)
(*                                                                         *)
(* Strings are sequences of one-character strings.  The literal chunks of  *)
(* a template literal are kept as single multi-character elements of the   *)
(* sequence, so that the interpolated values stay recognisable inside the  *)
(* produced string.  An absent JSON field is a record without that field.  *)
(***************************************************************************)
EXTENDS Integers, Sequences, FiniteSets, TLC

(***************************************************************************)
(* Bounds of the model.                                                    *)
(***************************************************************************)
MaxLen == 3
MaxPasses == 2
MaxFieldLen == 2
MaxReviews == 15

(***************************************************************************)
(* Generic string helpers.                                                 *)
(***************************************************************************)
Min(a, b) == IF a < b THEN a ELSE b

RECURSIVE StringsUpTo(_, _)
StringsUpTo(alphabet, n) ==
  IF n = 0 THEN {<< >>}
  ELSE LET shorter == StringsUpTo(alphabet, n - 1)
       IN  shorter \cup {Append(s, c) : s \in shorter, c \in alphabet}

RECURSIVE Join(_, _)
Join(parts, sep) ==
  IF parts = << >> THEN << >>
  ELSE IF Len(parts) = 1 THEN Head(parts)
  ELSE Head(parts) \o sep \o Join(Tail(parts), sep)

Digit(d) == CASE d = 0 -> "0" [] d = 1 -> "1" [] d = 2 -> "2" [] d = 3 -> "3"
              [] d = 4 -> "4" [] d = 5 -> "5" [] d = 6 -> "6" [] d = 7 -> "7"
              [] d = 8 -> "8" [] d = 9 -> "9"

RECURSIVE Decimal(_)
Decimal(n) ==
  IF n < 10 THEN <<Digit(n)>> ELSE Append(Decimal(n \div 10), Digit(n % 10))

(***************************************************************************)
(* reviewsRenderer: escapeHtml.  Each String.replace has a one-character   *)
(* global pattern, so it rewrites every occurrence of that character of    *)
(* the string it is applied to.                                            *)
(***************************************************************************)
RECURSIVE ReplaceAll(_, _, _)
ReplaceAll(value, ch, replacement) ==
  IF value = << >> THEN << >>
  ELSE (IF Head(value) = ch THEN replacement ELSE <<Head(value)>>)
         \o ReplaceAll(Tail(value), ch, replacement)

AmpEntity  == <<"&", "a", "m", "p", ";">>
LtEntity   == <<"&", "l", "t", ";">>
GtEntity   == <<"&", "g", "t", ";">>
QuotEntity == <<"&", "q", "u", "o", "t", ";">>
AposEntity == <<"&", "#", "3", "9", ";">>

escapeHtmlAmpLast(value) ==
  ReplaceAll(ReplaceAll(ReplaceAll(ReplaceAll(ReplaceAll(value,
    "<", LtEntity), ">", GtEntity), "\"", QuotEntity), "'", AposEntity),
    "&", AmpEntity)

escapeHtml(value) ==
  ReplaceAll(ReplaceAll(ReplaceAll(ReplaceAll(ReplaceAll(value,
    "&", AmpEntity), "<", LtEntity), ">", GtEntity), "\"", QuotEntity),
    "'", AposEntity)

(***************************************************************************)
(* Number.prototype.toFixed(1).  A rating is held in hundredths (425 is    *)
(* 4.25); toFixed picks the nearest tenth, the larger one on a tie, and    *)
(* prefixes "-" for a negative value.  The ratings of the model are        *)
(* multiples of 0.25, which a double holds exactly, so the nearest tenth   *)
(* of the decimal value is the nearest tenth of the double.                *)
(***************************************************************************)
toFixed1Truncating(rating) ==
  LET a      == IF rating < 0 THEN 0 - rating ELSE rating
      tenths == a \div 10
      digits == Decimal(tenths \div 10) \o <<".">> \o <<Digit(tenths % 10)>>
  IN  IF rating < 0 THEN <<"-">> \o digits ELSE digits

toFixed1(rating) ==
  LET a      == IF rating < 0 THEN 0 - rating ELSE rating
      tenths == (a + 5) \div 10
      digits == Decimal(tenths \div 10) \o <<".">> \o <<Digit(tenths % 10)>>
  IN  IF rating < 0 THEN <<"-">> \o digits ELSE digits

(***************************************************************************)
(* reviewsRenderer: renderProductReviewsHtml.                              *)
(***************************************************************************)
RendererTopN == 10

Has(obj, field) == field \in DOMAIN obj

ArticleOpen  == "<article data-review-id=\""
AuthorOpen   == "\"><header><strong>"
RatingOpen   == "</strong><span aria-label=\"Rating\">"
TimeOpen     == "[star]</span><time datetime=\""
TimeText     == "\">"
CommentOpen  == "</time></header><p>"
ArticleClose == "</p></article>"
Newline      == "\n"
SectionOpen  == "<section data-product-id=\""
LabelOpen    == "\" aria-label=\"Top reviews for "
HeadingOpen  == "\"><h2>"
HeadingClose == " - Latest Reviews</h2>"
SectionClose == "</section>"

TemplateTokens ==
  {ArticleOpen, AuthorOpen, RatingOpen, TimeOpen, TimeText, CommentOpen,
   ArticleClose, Newline, SectionOpen, LabelOpen, HeadingOpen, HeadingClose,
   SectionClose}

renderArticle(review) ==
  <<ArticleOpen>> \o escapeHtml(review.id)
    \o <<AuthorOpen>> \o escapeHtml(review.author)
    \o <<RatingOpen>> \o toFixed1(review.rating)
    \o <<TimeOpen>> \o escapeHtml(review.createdAt)
    \o <<TimeText>> \o escapeHtml(review.createdAt)
    \o <<CommentOpen>> \o escapeHtml(review.comment)
    \o <<ArticleClose>>

sliceNoLimit(reviews, n) == reviews

slice(reviews, n) == SubSeq(reviews, 1, Min(Len(reviews), n))

\* The renderer throws a TypeError when a value it dereferences is absent:
\* value.replace on an absent string, rating.toFixed on an absent number.
reviewComplete(review) ==
  /\ Has(review, "id") /\ Has(review, "author") /\ Has(review, "rating")
  /\ Has(review, "createdAt") /\ Has(review, "comment")

renderThrows(payload) ==
  LET topReviews == slice(payload.reviews, RendererTopN)
  IN  \/ \E k \in 1..Len(topReviews) : ~reviewComplete(topReviews[k])
      \/ ~Has(payload, "id")
      \/ ~Has(payload, "name")

RenderTypeError == <<"Cannot read properties of undefined">>

renderProductReviewsHtmlRawName(payload) ==
  LET topReviews == slice(payload.reviews, RendererTopN)
      articles   == Join([k \in 1..Len(topReviews) |-> renderArticle(topReviews[k])],
                         <<Newline>>)
  IN  <<SectionOpen>> \o escapeHtml(payload.id)
        \o <<LabelOpen>> \o escapeHtml(payload.name)
        \o <<HeadingOpen>> \o payload.name
        \o <<HeadingClose>> \o articles \o <<SectionClose>>

renderProductReviewsHtml(payload) ==
  LET topReviews == slice(payload.reviews, RendererTopN)
      articles   == Join([k \in 1..Len(topReviews) |-> renderArticle(topReviews[k])],
                         <<Newline>>)
  IN  <<SectionOpen>> \o escapeHtml(payload.id)
        \o <<LabelOpen>> \o escapeHtml(payload.name)
        \o <<HeadingOpen>> \o escapeHtml(payload.name)
        \o <<HeadingClose>> \o articles \o <<SectionClose>>

(***************************************************************************)
(* reviewsFetcher: normalizeReviews and the payload built from a parsed    *)
(* success body.                                                           *)
(***************************************************************************)
FetcherTopN == 10

normalizeEntry(review) ==
  [f \in {"id", "author", "rating", "comment", "createdAt"} \cap DOMAIN review
     |-> review[f]]

normalizeReviewsKeepLast(reviews) ==
  LET n == Len(reviews)
      m == Min(n, FetcherTopN)
  IN  [k \in 1..m |-> normalizeEntry(reviews[n - m + k])]

normalizeReviews(reviews) ==
  LET top == slice(reviews, FetcherTopN)
  IN  [k \in 1..Len(top) |-> normalizeEntry(top[k])]

payloadOfBody(body) ==
  LET fields == {"reviews"}
                  \cup (IF Has(body, "productId") THEN {"id"} ELSE {})
                  \cup (IF Has(body, "productName") THEN {"name"} ELSE {})
  IN  [f \in fields |->
         CASE f = "id" -> body.productId
           [] f = "name" -> body.productName
           [] OTHER -> normalizeReviews(IF Has(body, "reviews")
                                          THEN body.reviews ELSE << >>)]

(***************************************************************************)
(* reviewsFetcher: buildUrl and the error of a non-success status.         *)
(***************************************************************************)
stripTrailingSlash(baseUrl) ==
  IF baseUrl # << >> /\ baseUrl[Len(baseUrl)] = "/"
    THEN SubSeq(baseUrl, 1, Len(baseUrl) - 1)
    ELSE baseUrl

buildUrlNoStrip(baseUrl, productId) ==
  baseUrl \o <<"/products/">> \o productId \o <<"/reviews">>

buildUrl(baseUrl, productId) ==
  stripTrailingSlash(baseUrl) \o <<"/products/">> \o productId \o <<"/reviews">>

responseOk(status) == status >= 200 /\ status <= 299

fetchErrorMessageNoStatus(productId, status) ==
  <<"Failed to fetch reviews for ">> \o productId

fetchErrorMessage(productId, status) ==
  <<"Failed to fetch reviews for ">> \o productId \o <<": ">> \o Decimal(status)

(***************************************************************************)
(* index: module constants and the parsing of PRODUCT_IDS.                 *)
(***************************************************************************)
API_BASE_URL == <<"https://api.example.com">>
OUTPUT_BUCKET == "customer-reviews-demo"
DefaultProductIds == <<"product-a", ",", "product-b">>

RECURSIVE splitFrom(_, _, _, _)
splitFrom(str, sep, current, done) ==
  IF str = << >> THEN Append(done, current)
  ELSE IF Head(str) = sep
         THEN splitFrom(Tail(str), sep, << >>, Append(done, current))
         ELSE splitFrom(Tail(str), sep, Append(current, Head(str)), done)

split(str, sep) == splitFrom(str, sep, << >>, << >>)

RECURSIVE trimStart(_)
trimStart(str) ==
  IF str # << >> /\ Head(str) = " " THEN trimStart(Tail(str)) ELSE str

RECURSIVE trimEnd(_)
trimEnd(str) ==
  IF str # << >> /\ str[Len(str)] = " "
    THEN trimEnd(SubSeq(str, 1, Len(str) - 1))
    ELSE str

trim(str) == trimEnd(trimStart(str))

RECURSIVE dedupe(_)
dedupe(ids) ==
  IF ids = << >> THEN << >>
  ELSE LET front == dedupe(SubSeq(ids, 1, Len(ids) - 1))
           last  == ids[Len(ids)]
       IN  IF \E k \in 1..Len(front) : front[k] = last
             THEN front ELSE Append(front, last)

parseProductIdsDedup(config) ==
  LET parts == split(config, ",")
  IN  dedupe([k \in 1..Len(parts) |-> trim(parts[k])])

parseProductIdsNoTrim(config) == split(config, ",")

parseProductIds(config) ==
  LET parts == split(config, ",")
  IN  [k \in 1..Len(parts) |-> trim(parts[k])]

keyOfFixed(productId) == <<"reviews/", "product-a", ".html">>

keyOf(productId) == <<"reviews/">> \o productId \o <<".html">>

resultEntry(productId, key) ==
  [productId |-> productId, key |-> key, status |-> "saved"]

JsonHeaders == [contentType |-> "application/json"]

successResponse(results) ==
  [statusCode |-> 200,
   headers    |-> JsonHeaders,
   body       |-> [message |-> <<"Successfully processed ">>
                                 \o Decimal(Len(results)) \o <<" product(s)">>,
                   results |-> results]]

errorResponseWithResults(message, results) ==
  [statusCode |-> 500,
   headers    |-> JsonHeaders,
   body       |-> [error |-> message, results |-> results]]

errorResponse(message, results) ==
  [statusCode |-> 500,
   headers    |-> JsonHeaders,
   body       |-> [error |-> message]]

(***************************************************************************)
(* storage: the PutObjectCommand built by saveReviewFragment.              *)
(***************************************************************************)
putObjectCommandNoCharset(bucket, key, html) ==
  [Bucket       |-> bucket,
   Key          |-> key,
   Body         |-> html,
   ContentType  |-> "text/html",
   CacheControl |-> "max-age=60"]

putObjectCommand(bucket, key, html) ==
  [Bucket       |-> bucket,
   Key          |-> key,
   Body         |-> html,
   ContentType  |-> "text/html; charset=utf-8",
   CacheControl |-> "max-age=60"]

\* Variant of the store that creates objects and never overwrites one.
applyPutKeepExisting(objects, command) ==
  LET name == <<command.Bucket, command.Key>>
      obj  == [Body |-> command.Body, ContentType |-> command.ContentType,
               CacheControl |-> command.CacheControl]
  IN  [n \in DOMAIN objects \cup {name} |->
         IF n \in DOMAIN objects THEN objects[n] ELSE obj]

applyPut(objects, command) ==
  LET name == <<command.Bucket, command.Key>>
      obj  == [Body |-> command.Body, ContentType |-> command.ContentType,
               CacheControl |-> command.CacheControl]
  IN  [n \in DOMAIN objects \cup {name} |-> IF n = name THEN obj ELSE objects[n]]

(***************************************************************************)
(* State.                                                                  *)
(*   PRODUCT_IDS  the configured identifier string (module constant)       *)
(*   pc           position of the handler: "idle", awaiting fetch(url)     *)
(*                ("fetch"), awaiting response.json() ("json"), awaiting   *)
(*                s3Client.send ("send"), returned ("done")                *)
(*   productIds, idx, results   the handler's locals; idx is the list      *)
(*                position of the running loop iteration                   *)
(*   response     the value the handler returned                           *)
(*   objects      the object store, (bucket, key) -> object                *)
(*   fetchLog, writeLog   the upstream GETs and the PutObject commands     *)
(*                issued by the running invocation, in order               *)
(*   inflight     the I/O operations issued and not yet settled            *)
(*   failure      the stage and list position at which the invocation      *)
(*                failed, if it did                                        *)
(*   invocations  number of invocations started                            *)
(*   envLog       what the environment answered to the I/O of the running  *)
(*                invocation, in order                                     *)
(*   prevRun      the answers, the result and the writes of the invocation *)
(*                before the running one, and the store as it left it      *)
(*   tracing      whether the behaviour keeps envLog and prevRun; fixed    *)
(*                by the initial state                                     *)
(* The remaining variables hold the argument and the result of a direct    *)
(* call of escapeHtml, renderProductReviewsHtml and of the fetcher's       *)
(* payload construction.                                                   *)
(***************************************************************************)
VARIABLES PRODUCT_IDS, pc, productIds, idx, results, response, objects,
          fetchLog, writeLog, inflight, failure, invocations,
          envLog, prevRun, tracing,
          escArg, escRet, escPasses,
          renderArg, renderRet, renderCalled,
          bodyArg, fetchRet, fetchCalled

handlerVars == <<PRODUCT_IDS, pc, productIds, idx, results, response, objects,
                 fetchLog, writeLog, inflight, failure, invocations,
                 envLog, prevRun, tracing>>
escVars    == <<escArg, escRet, escPasses>>
renderVars == <<renderArg, renderRet, renderCalled>>
fetchVars  == <<bodyArg, fetchRet, fetchCalled>>

(***************************************************************************)
(* State of the direct calls of buildUrl, saveReviewFragment, the mock API *)
(* handler and the pipeline's PR-number detection.                         *)
(*   auxFn        the function the behaviour calls                         *)
(*   auxPc        "ready", "sent" (an awaited call is pending), "api" (the *)
(*                GitHub lookup is pending), "done"                        *)
(*   urlBase, urlId, urlRet     arguments and result of buildUrl           *)
(*   saveArg      argument of saveReviewFragment                           *)
(*   saveBefore, saveStore      the store before the call and now          *)
(*   saveSent     the commands handed to s3Client.send                     *)
(*   saveOutcome  "none", "resolved" or "rejected"                         *)
(*   mockEvent, mockRet         event and result of the mock API handler   *)
(*   branchName, apiAnswer      env.GIT_BRANCH and what the GitHub lookup  *)
(*                gave: "none" (not asked), "empty", "exception", "found"  *)
(*   prNumber, prMethod         env.PR_NUMBER and the step that set it     *)
(*   pageArg, pageRet           options and result of renderMainPageWithEsi*)
(***************************************************************************)
VARIABLES auxFn, auxPc, urlBase, urlId, urlRet,
          saveArg, saveBefore, saveStore, saveSent, saveOutcome,
          mockEvent, mockRet,
          branchName, apiAnswer, prNumber, prMethod,
          pageArg, pageRet

urlVars    == <<urlBase, urlId, urlRet>>
saveVars   == <<saveArg, saveBefore, saveStore, saveSent, saveOutcome>>
mockVars   == <<mockEvent, mockRet>>
detectVars == <<branchName, apiAnswer, prNumber, prMethod>>
pageVars   == <<pageArg, pageRet>>
auxVars    == <<auxFn, auxPc, urlVars, saveVars, mockVars, detectVars, pageVars>>

pureVars   == <<escVars, renderVars, fetchVars, auxVars>>
vars == <<handlerVars, pureVars>>

MaxConfigLen == 3
MaxTracedConfigLen == 2
MaxInvocations == 2

ConfigAlphabet == {"product-a", "product-x", ",", " "}

NoResponse == [statusCode |-> 0, headers |-> JsonHeaders, body |-> [pending |-> TRUE]]
NoFailure  == [stage |-> "none", pos |-> 0, status |-> 0, message |-> << >>]
NoRun      == [ran |-> FALSE]

(***************************************************************************)
(* What the environment can answer.                                        *)
(***************************************************************************)
Statuses == {200, 404, 500}
NetworkError == <<"fetch failed">>
JsonSyntaxError == <<"Unexpected token < in JSON at position 0">>
AccessDenied == <<"Access Denied">>
RequestTimeout == <<"socket hang up">>
StorageErrors == {AccessDenied, RequestTimeout}

SampleReview(k) ==
  [id        |-> <<"r">> \o Decimal(k),
   author    |-> <<"u">> \o Decimal(k),
   rating    |-> 75 * k - 100,
   comment   |-> <<"c", "<">> \o Decimal(k),
   createdAt |-> <<"t">> \o Decimal(k)]

UpstreamEntry(k) ==
  [id        |-> <<"r">> \o Decimal(k),
   author    |-> <<"u">> \o Decimal(k),
   rating    |-> 75 * k - 100,
   comment   |-> <<"c", "<">> \o Decimal(k),
   createdAt |-> <<"t">> \o Decimal(k),
   helpful   |-> k]

Bodies(productId) ==
  { [productId |-> productId, productName |-> <<"N">>,
     reviews |-> <<UpstreamEntry(1)>>],
    [productId |-> productId, productName |-> <<"N", "&">>],
    [productId |-> <<"product-b">>, productName |-> <<"N">>, reviews |-> << >>],
    [productId |-> productId, reviews |-> << >>] }

InitHandler ==
  /\ pc = "idle"
  /\ productIds = << >>
  /\ idx = 0
  /\ results = << >>
  /\ response = NoResponse
  /\ objects = << >>
  /\ fetchLog = << >>
  /\ writeLog = << >>
  /\ inflight = {}
  /\ failure = NoFailure
  /\ invocations = 0
  /\ envLog = << >>
  /\ prevRun = NoRun

DefaultPayload == [id |-> <<"product-a">>, name |-> <<"N">>, reviews |-> << >>]
DefaultBody == [productId |-> <<"product-a">>, productName |-> <<"N">>]

DefaultSaveArg == [bucket |-> OUTPUT_BUCKET, key |-> keyOf(<<"product-a">>),
                   html |-> << >>]
NoMockResponse == [statusCode |-> 0]

InitUrlDefaults == urlBase = << >> /\ urlId = << >> /\ urlRet = << >>
InitSaveDefaults ==
  /\ saveArg = DefaultSaveArg /\ saveBefore = << >> /\ saveStore = << >>
  /\ saveSent = << >> /\ saveOutcome = "none"
InitMockDefaults == mockEvent = [path |-> << >>] /\ mockRet = NoMockResponse
InitDetectDefaults ==
  /\ branchName = << >> /\ apiAnswer = "none"
  /\ prNumber = <<"default">> /\ prMethod = "none"

InitPageDefaults ==
  /\ pageArg = [productIds |-> << >>, bucketName |-> OUTPUT_BUCKET]
  /\ pageRet = << >>

InitAuxDefaults ==
  /\ auxFn = "none" /\ auxPc = "ready"
  /\ InitUrlDefaults /\ InitSaveDefaults /\ InitMockDefaults
  /\ InitDetectDefaults /\ InitPageDefaults

InitPureDefaults ==
  /\ InitAuxDefaults
  /\ escArg = << >> /\ escRet = << >> /\ escPasses = 0
  /\ renderArg = DefaultPayload /\ renderRet = << >> /\ renderCalled = FALSE
  /\ bodyArg = DefaultBody /\ fetchRet = DefaultPayload /\ fetchCalled = FALSE

Init ==
  /\ PRODUCT_IDS \in StringsUpTo(ConfigAlphabet, MaxConfigLen) \cup {DefaultProductIds}
  /\ InitHandler
  /\ tracing = FALSE
  /\ InitPureDefaults

\* Behaviours that keep the history of their invocations, to compare them.
InitTraced ==
  /\ PRODUCT_IDS \in StringsUpTo(ConfigAlphabet, MaxTracedConfigLen)
                       \cup {DefaultProductIds}
  /\ InitHandler
  /\ tracing = TRUE
  /\ InitPureDefaults

(***************************************************************************)
(* The handler, one action per stretch of code between two awaits.         *)
(***************************************************************************)
logged(answer) == IF tracing THEN Append(envLog, answer) ELSE envLog

issueFetch(position, ids) ==
  [pos |-> position, url |-> buildUrl(API_BASE_URL, ids[position])]

settleKeep(pending, position) == pending

settle(pending, position) == {o \in pending : o.pos # position}

\* Variant of the catch block that skips the failed product and goes on.
FailContinue(stage, status, message) ==
  /\ failure' = [stage |-> stage, pos |-> idx, status |-> status,
                 message |-> message]
  /\ IF idx < Len(productIds)
       THEN /\ idx' = idx + 1
            /\ fetchLog' = Append(fetchLog, issueFetch(idx + 1, productIds))
            /\ inflight' = {[pos |-> idx + 1, op |-> "GET"]}
            /\ pc' = "fetch"
            /\ UNCHANGED response
       ELSE /\ pc' = "done"
            /\ response' = errorResponse(message, results)
            /\ inflight' = {}
            /\ UNCHANGED <<idx, fetchLog>>
  /\ UNCHANGED <<PRODUCT_IDS, productIds, results, writeLog, invocations>>

\* Variant of the catch block that sends a rejected write once more.
FailRetry(stage, status, message) ==
  IF stage = "send" /\ Len(SelectSeq(writeLog, LAMBDA w : w.pos = idx)) < 2
    THEN /\ writeLog' = Append(writeLog, writeLog[Len(writeLog)])
         /\ pc' = "send"
         /\ UNCHANGED <<PRODUCT_IDS, productIds, idx, results, response,
                        fetchLog, inflight, failure, invocations>>
    ELSE /\ pc' = "done"
         /\ response' = errorResponse(message, results)
         /\ failure' = [stage |-> stage, pos |-> idx, status |-> status,
                        message |-> message]
         /\ inflight' = {}
         /\ UNCHANGED <<PRODUCT_IDS, productIds, idx, results, fetchLog,
                        writeLog, invocations>>

\* Variant of the catch block that starts the same product over.
FailStartOver(stage, status, message) ==
  /\ pc' = "fetch"
  /\ UNCHANGED <<PRODUCT_IDS, productIds, idx, results, response, fetchLog,
                 writeLog, inflight, failure, invocations>>

\* The catch block: whatever was thrown becomes the returned 500 result.
Fail(stage, status, message) ==
  /\ pc' = "done"
  /\ response' = errorResponse(message, results)
  /\ failure' = [stage |-> stage, pos |-> idx, status |-> status,
                 message |-> message]
  /\ inflight' = settle(inflight, idx)
  /\ UNCHANGED <<PRODUCT_IDS, productIds, idx, results, fetchLog, writeLog,
                 invocations>>

\* Variant of the handler entry whose results list outlives the invocation.
InvokeKeepResults ==
  /\ pc \in {"idle", "done"}
  /\ invocations < MaxInvocations
  /\ LET ids == parseProductIds(PRODUCT_IDS)
     IN  /\ productIds' = ids
         /\ idx' = 1
         /\ fetchLog' = <<issueFetch(1, ids)>>
         /\ inflight' = {[pos |-> 1, op |-> "GET"]}
  /\ results' = results
  /\ writeLog' = << >>
  /\ response' = NoResponse
  /\ failure' = NoFailure
  /\ invocations' = invocations + 1
  /\ envLog' = << >>
  /\ prevRun' = IF pc = "done" /\ tracing
                  THEN [ran |-> TRUE, env |-> envLog, response |-> response,
                        writes |-> writeLog, store |-> objects]
                  ELSE prevRun
  /\ pc' = "fetch"
  /\ UNCHANGED <<PRODUCT_IDS, objects, tracing, pureVars>>

\* handler entry: parse the list, start the loop, issue the first fetch.
Invoke ==
  /\ pc \in {"idle", "done"}
  /\ invocations < MaxInvocations
  /\ LET ids == parseProductIds(PRODUCT_IDS)
     IN  /\ productIds' = ids
         /\ idx' = 1
         /\ fetchLog' = <<issueFetch(1, ids)>>
         /\ inflight' = {[pos |-> 1, op |-> "GET"]}
  /\ results' = << >>
  /\ writeLog' = << >>
  /\ response' = NoResponse
  /\ failure' = NoFailure
  /\ invocations' = invocations + 1
  /\ envLog' = << >>
  /\ prevRun' = IF pc = "done" /\ tracing
                  THEN [ran |-> TRUE, env |-> envLog, response |-> response,
                        writes |-> writeLog, store |-> objects]
                  ELSE prevRun
  /\ pc' = "fetch"
  /\ UNCHANGED <<PRODUCT_IDS, objects, tracing, pureVars>>

\* fetch(url) rejects: network-level failure.
FetchReject ==
  /\ pc = "fetch"
  /\ Fail("fetch", 0, NetworkError)
  /\ envLog' = logged([op |-> "fetch", rejected |-> TRUE])
  /\ UNCHANGED <<objects, prevRun, tracing, pureVars>>

\* fetch(url) resolves with a response.
FetchResolve(status) ==
  /\ pc = "fetch"
  /\ IF responseOk(status)
       THEN /\ pc' = "json"
            /\ UNCHANGED <<PRODUCT_IDS, productIds, idx, results, response,
                           fetchLog, writeLog, inflight, failure, invocations>>
       ELSE Fail("fetch", status, fetchErrorMessage(productIds[idx], status))
  /\ envLog' = logged([op |-> "fetch", status |-> status])
  /\ UNCHANGED <<objects, prevRun, tracing, pureVars>>

\* response.json() rejects: the body is not JSON.
JsonReject ==
  /\ pc = "json"
  /\ Fail("json", 200, JsonSyntaxError)
  /\ envLog' = logged([op |-> "json", rejected |-> TRUE])
  /\ UNCHANGED <<objects, prevRun, tracing, pureVars>>

\* response.json() resolves: build the payload, render, issue the write.
JsonResolve(body) ==
  /\ pc = "json"
  /\ body \in Bodies(productIds[idx])
  /\ LET payload == payloadOfBody(body)
     IN  IF renderThrows(payload)
           THEN Fail("render", 200, RenderTypeError)
           ELSE LET html == renderProductReviewsHtml(payload)
                    key  == keyOf(productIds[idx])
                IN  /\ writeLog' = Append(writeLog,
                           [pos |-> idx,
                            command |-> putObjectCommand(OUTPUT_BUCKET, key, html)])
                    /\ inflight' = settle(inflight, idx)
                                     \cup {[pos |-> idx, op |-> "PUT"]}
                    /\ pc' = "send"
                    /\ UNCHANGED <<PRODUCT_IDS, productIds, idx, results,
                                   response, fetchLog, failure, invocations>>
  /\ envLog' = logged([op |-> "json", body |-> body])
  /\ UNCHANGED <<objects, prevRun, tracing, pureVars>>

\* s3Client.send rejects.  A refused request leaves the store alone; a
\* request that timed out may or may not have been applied.
SendReject(error, applied) ==
  /\ pc = "send"
  /\ error \in StorageErrors
  /\ applied => error = RequestTimeout
  /\ Fail("send", 0, error)
  /\ objects' = IF applied
                  THEN applyPut(objects, writeLog[Len(writeLog)].command)
                  ELSE objects
  /\ envLog' = logged([op |-> "send", error |-> error, applied |-> applied])
  /\ UNCHANGED <<prevRun, tracing, pureVars>>

\* Variant of the loop body that goes on without recording the result.
SendResolveNoRecord ==
  /\ pc = "send"
  /\ LET command == writeLog[Len(writeLog)].command
     IN  /\ objects' = applyPut(objects, command)
         /\ results' = results
         /\ IF idx < Len(productIds)
              THEN /\ idx' = idx + 1
                   /\ fetchLog' = Append(fetchLog, issueFetch(idx + 1, productIds))
                   /\ inflight' = settle(inflight, idx)
                                    \cup {[pos |-> idx + 1, op |-> "GET"]}
                   /\ pc' = "fetch"
                   /\ UNCHANGED response
              ELSE /\ pc' = "done"
                   /\ response' = successResponse(results)
                   /\ inflight' = settle(inflight, idx)
                   /\ UNCHANGED <<idx, fetchLog>>
  /\ envLog' = logged([op |-> "send", resolved |-> TRUE])
  /\ UNCHANGED <<PRODUCT_IDS, productIds, writeLog, failure, invocations,
                 prevRun, tracing, pureVars>>

\* s3Client.send resolves: record the result, go on with the next product
\* or return the summary.
SendResolve ==
  /\ pc = "send"
  /\ LET command == writeLog[Len(writeLog)].command
         entry   == resultEntry(productIds[idx], command.Key)
         all     == Append(results, entry)
     IN  /\ objects' = applyPut(objects, command)
         /\ results' = all
         /\ IF idx < Len(productIds)
              THEN /\ idx' = idx + 1
                   /\ fetchLog' = Append(fetchLog, issueFetch(idx + 1, productIds))
                   /\ inflight' = settle(inflight, idx)
                                    \cup {[pos |-> idx + 1, op |-> "GET"]}
                   /\ pc' = "fetch"
                   /\ UNCHANGED response
              ELSE /\ pc' = "done"
                   /\ response' = successResponse(all)
                   /\ inflight' = settle(inflight, idx)
                   /\ UNCHANGED <<idx, fetchLog>>
  /\ envLog' = logged([op |-> "send", resolved |-> TRUE])
  /\ UNCHANGED <<PRODUCT_IDS, productIds, writeLog, failure, invocations,
                 prevRun, tracing, pureVars>>

Next ==
  \/ Invoke
  \/ FetchReject
  \/ \E status \in Statuses : FetchResolve(status)
  \/ JsonReject
  \/ /\ pc = "json"
     /\ \E body \in Bodies(productIds[idx]) : JsonResolve(body)
  \/ \E error \in StorageErrors, applied \in BOOLEAN : SendReject(error, applied)
  \/ SendResolve

Spec == Init /\ [][Next]_vars

\* Every issued fetch, body read and write eventually resolves or rejects.
IOSettles ==
  \/ FetchReject
  \/ \E status \in Statuses : FetchResolve(status)
  \/ JsonReject
  \/ /\ pc = "json"
     /\ \E body \in Bodies(productIds[idx]) : JsonResolve(body)
  \/ \E error \in StorageErrors, applied \in BOOLEAN : SendReject(error, applied)
  \/ SendResolve

SpecLive == Init /\ [][Next]_vars /\ WF_vars(IOSettles)

SpecTraced == InitTraced /\ [][Next]_vars

(***************************************************************************)
(* Direct calls of the pure functions, on inputs drawn from bounded sets.  *)
(* A behaviour calls one of the functions.                                 *)
(***************************************************************************)
Alphabet == {"&", "<", ">", "\"", "'", "b"}

Ascending(n)  == [k \in 1..n |-> k]
Descending(n) == [k \in 1..n |-> n + 1 - k]
Orders(n) == {Ascending(n), Descending(n)}

HostilePayloads ==
  { [id |-> s1, name |-> s2,
     reviews |-> << [id |-> s2, author |-> s1 \o s2, rating |-> 400,
                     comment |-> s2 \o s1, createdAt |-> s1] >>]
      : s1 \in StringsUpTo(Alphabet, MaxFieldLen),
        s2 \in StringsUpTo(Alphabet, MaxFieldLen) }

CountPayloads ==
  { [id |-> <<"product-a">>, name |-> <<"N">>,
     reviews |-> [k \in 1..Len(order) |-> SampleReview(order[k])]]
      : order \in UNION {Orders(m) : m \in 0..MaxReviews} }

CountBodies ==
  { [productId |-> <<"product-a">>, productName |-> <<"N">>,
     reviews |-> [k \in 1..Len(order) |-> UpstreamEntry(order[k])]]
      : order \in UNION {Orders(m) : m \in 0..MaxReviews} }
  \cup {DefaultBody}

InitPure ==
  /\ PRODUCT_IDS = DefaultProductIds
  /\ InitHandler
  /\ tracing = FALSE
  /\ InitAuxDefaults
  /\ escPasses = 0 /\ escRet = << >>
  /\ renderCalled = FALSE /\ renderRet = << >>
  /\ fetchCalled = FALSE /\ fetchRet = DefaultPayload
  /\ \/ /\ escArg \in StringsUpTo(Alphabet, MaxLen)
        /\ renderArg = DefaultPayload /\ bodyArg = DefaultBody
     \/ /\ renderArg \in HostilePayloads \cup CountPayloads
        /\ escArg = << >> /\ bodyArg = DefaultBody
     \/ /\ bodyArg \in CountBodies
        /\ escArg = << >> /\ renderArg = DefaultPayload

\* escapeHtml(value); a further call escapes the previous result again.
CallEscapeHtml ==
  /\ escPasses < MaxPasses
  /\ ~renderCalled /\ ~fetchCalled
  /\ LET value == IF escPasses = 0 THEN escArg ELSE escRet
     IN  /\ escArg' = value
         /\ escRet' = escapeHtml(value)
  /\ escPasses' = escPasses + 1
  /\ UNCHANGED <<handlerVars, renderVars, fetchVars, auxVars>>

CallRender ==
  /\ ~renderCalled
  /\ escPasses = 0 /\ ~fetchCalled
  /\ ~renderThrows(renderArg)
  /\ renderRet' = renderProductReviewsHtml(renderArg)
  /\ renderCalled' = TRUE
  /\ UNCHANGED <<handlerVars, escVars, renderArg, fetchVars, auxVars>>

\* The value fetchProductReviews returns for a success response with body
\* bodyArg.
CallFetchSuccess ==
  /\ ~fetchCalled
  /\ escPasses = 0 /\ ~renderCalled
  /\ fetchRet' = payloadOfBody(bodyArg)
  /\ fetchCalled' = TRUE
  /\ UNCHANGED <<handlerVars, escVars, renderVars, bodyArg, auxVars>>

NextPure == CallEscapeHtml \/ CallRender \/ CallFetchSuccess

SpecPure == InitPure /\ [][NextPure]_vars

(***************************************************************************)
(* Properties of the handler (specification Spec).                         *)
(***************************************************************************)
RECURSIVE IsPrefix(_, _)
IsPrefix(sub, str) ==
  \/ sub = << >>
  \/ /\ str # << >>
     /\ Head(sub) = Head(str)
     /\ IsPrefix(Tail(sub), Tail(str))

Contains(str, sub) ==
  \E k \in 1..(Len(str) + 1) : IsPrefix(sub, SubSeq(str, k, Len(str)))

FetcherFailed == failure.stage \in {"fetch", "json"}

\* C1: once the Fetcher has failed for the product at position i, the
\* invocation has issued no upstream fetch and no storage write for any
\* position after i, and it has returned.
C1_FailFast ==
  FetcherFailed =>
    /\ pc = "done"
    /\ \A k \in 1..Len(fetchLog) : fetchLog[k].pos <= failure.pos
    /\ \A k \in 1..Len(writeLog) : writeLog[k].pos <= failure.pos

C1_Witness ==
  /\ FetcherFailed
  /\ failure.pos = 2
  /\ Len(productIds) = 3
  /\ Len(writeLog) = 1

\* C2: whatever stage fails, the handler returns a result with statusCode
\* 500 whose body holds the failure's message and nothing else, also when
\* earlier products were already fetched and stored.
C2_FailureResult ==
  failure.stage # "none" =>
    /\ pc = "done"
    /\ response.statusCode = 500
    /\ DOMAIN response.body = {"error"}
    /\ response.body.error = failure.message

C2_Witness ==
  /\ failure.stage = "render"
  /\ failure.pos = 2
  /\ Len(results) = 1
  /\ response.statusCode = 500

StatusText(status) ==
  CASE status = 404 -> <<"4", "0", "4">>
    [] status = 500 -> <<"5", "0", "0">>

\* C3: a non-success status s for product p makes the invocation's failure
\* result carry a message that names both p and s.
C3_FetchErrorNamesProductAndStatus ==
  (failure.stage = "fetch" /\ failure.status # 0) =>
    /\ response.statusCode = 500
    /\ Contains(response.body.error, productIds[failure.pos])
    /\ Contains(response.body.error, StatusText(failure.status))
    /\ response.body.error =
         <<"Failed to fetch reviews for ">> \o productIds[failure.pos]
           \o <<": ">> \o StatusText(failure.status)

C3_Witness ==
  /\ failure.stage = "fetch"
  /\ failure.status = 500
  /\ productIds[failure.pos] = <<"product-x">>
  /\ Contains(response.body.error, <<"product-x", ": ", "5", "0", "0">>)

Succeeded == pc = "done" /\ failure.stage = "none"

\* C4: when every stage succeeds for every configured identifier, the
\* result is 200 with one entry per list position, in list order, each
\* {productId, key, "saved"} with key reviews/{productId}.html, the key of
\* the write issued for that position; the message counts the list.
C4_SuccessSummary ==
  Succeeded =>
    LET configured == parseProductIds(PRODUCT_IDS)
        entries    == response.body.results
    IN  /\ response.statusCode = 200
        /\ Len(entries) = Len(configured)
        /\ Len(writeLog) = Len(configured)
        /\ \A k \in 1..Len(configured) :
             /\ entries[k].productId = configured[k]
             /\ entries[k].status = "saved"
             /\ DOMAIN entries[k] = {"productId", "key", "status"}
             /\ entries[k].key = <<"reviews/">> \o configured[k] \o <<".html">>
             /\ writeLog[k].pos = k
             /\ writeLog[k].command.Key = entries[k].key
             /\ <<OUTPUT_BUCKET, entries[k].key>> \in DOMAIN objects
        /\ response.body.message =
             <<"Successfully processed ">> \o Decimal(Len(configured))
               \o <<" product(s)">>

C4_Witness ==
  /\ Succeeded
  /\ Len(productIds) = 2
  /\ productIds[1] = <<"product-a">>
  /\ productIds[2] = <<"product-x">>
  /\ response.statusCode = 200

\* C5: all I/O in flight belongs to one list position, the position of the
\* running iteration, and every earlier position has completed its fetch,
\* its render and its write.
C5_Sequential ==
  /\ \A o1 \in inflight, o2 \in inflight : o1.pos = o2.pos
  /\ \A o \in inflight :
       /\ o.pos = idx
       /\ Len(results) = idx - 1
       /\ \A j \in 1..(idx - 1) :
            /\ \E k \in 1..Len(fetchLog) : fetchLog[k].pos = j
            /\ \E k \in 1..Len(writeLog) : writeLog[k].pos = j

C5_Witness ==
  /\ pc = "fetch"
  /\ idx = 2
  /\ inflight = {[pos |-> 2, op |-> "GET"]}
  /\ Len(writeLog) = 1

CountAt(log, position) == Len(SelectSeq(log, LAMBDA e : e.pos = position))

\* C6: no retry: every list position has at most one upstream GET and at
\* most one write attempt per invocation, and a storage error ends the
\* invocation with the storage error's message as the result's message.
C6_NoRetry ==
  /\ \A j \in 1..Len(productIds) :
       /\ CountAt(fetchLog, j) <= 1
       /\ CountAt(writeLog, j) <= 1
  /\ failure.stage = "send" =>
       /\ pc = "done"
       /\ response.statusCode = 500
       /\ response.body.error \in StorageErrors
       /\ response.body.error = failure.message
       /\ \A k \in 1..Len(fetchLog) : fetchLog[k].pos <= failure.pos
       /\ \A k \in 1..Len(writeLog) : writeLog[k].pos <= failure.pos

C6_Witness ==
  /\ failure.stage = "send"
  /\ failure.pos = 1
  /\ Len(productIds) >= 2
  /\ response.body.error = AccessDenied

(***************************************************************************)
(* Properties of the pure functions (specification SpecPure).              *)
(***************************************************************************)
MarkupChars == {"&", "<", ">", "\"", "'"}

EntityOf(c) ==
  CASE c = "&" -> <<"&", "a", "m", "p", ";">>
    [] c = "<" -> <<"&", "l", "t", ";">>
    [] c = ">" -> <<"&", "g", "t", ";">>
    [] c = "\"" -> <<"&", "q", "u", "o", "t", ";">>
    [] c = "'" -> <<"&", "#", "3", "9", ";">>
    [] OTHER -> <<c>>

\* The substitution applied to each character of the string on its own.
RECURSIVE SubstEach(_)
SubstEach(str) ==
  IF str = << >> THEN << >> ELSE EntityOf(Head(str)) \o SubstEach(Tail(str))

EntityStartsAt(str, k) ==
  \E c \in MarkupChars :
    /\ k + Len(EntityOf(c)) - 1 <= Len(str)
    /\ SubSeq(str, k, k + Len(EntityOf(c)) - 1) = EntityOf(c)

Embedded(html) == SelectSeq(html, LAMBDA x : x \notin TemplateTokens)

RECURSIVE ConcatAll(_)
ConcatAll(parts) ==
  IF parts = << >> THEN << >> ELSE Head(parts) \o ConcatAll(Tail(parts))

ExpectedEmbedded(payload) ==
  LET n == Min(Len(payload.reviews), 10)
  IN  SubstEach(payload.id) \o SubstEach(payload.name) \o SubstEach(payload.name)
        \o ConcatAll([k \in 1..n |->
             LET r == payload.reviews[k]
             IN  SubstEach(r.id) \o SubstEach(r.author) \o toFixed1(r.rating)
                   \o SubstEach(r.createdAt) \o SubstEach(r.createdAt)
                   \o SubstEach(r.comment)])

\* C7: in a rendered fragment no < > " ' of a field survives, every & left
\* in the text starts one of the five entities, and what stands in the
\* embedding positions is each field with every markup character replaced
\* by its entity.
C7_EscapingComplete ==
  renderCalled =>
    /\ \A k \in 1..Len(renderRet) :
         /\ renderRet[k] \notin {"<", ">", "\"", "'"}
         /\ renderRet[k] = "&" => EntityStartsAt(renderRet, k)
    /\ Embedded(renderRet) = ExpectedEmbedded(renderArg)

C7_Witness ==
  /\ renderCalled
  /\ renderArg.id = <<"'", "\"">>
  /\ renderArg.name = <<"&", "<">>
  /\ renderArg.reviews[1].comment = <<"&", "<", "'", "\"">>

\* C8: escapeHtml is the one-pass per-character substitution; applied to
\* its own output it escapes the ampersands of the entities again.
C8_EscapeOnePass ==
  escPasses > 0 =>
    /\ escRet = SubstEach(escArg)
    /\ escArg = <<"<", "b", ">">> =>
         escRet = <<"&", "l", "t", ";", "b", "&", "g", "t", ";">>
    /\ escArg = <<"&", "l", "t", ";", "b", "&", "g", "t", ";">> =>
         escRet = <<"&", "a", "m", "p", ";", "l", "t", ";", "b",
                    "&", "a", "m", "p", ";", "g", "t", ";">>
    /\ escArg = <<"&", "a", "m", "p", ";">> =>
         escRet = <<"&", "a", "m", "p", ";", "a", "m", "p", ";">>
    /\ (\E k \in 1..Len(escArg) : escArg[k] \in MarkupChars) => escRet # escArg

C8_Witness ==
  /\ escPasses = 2
  /\ escArg = <<"&", "l", "t", ";", "b", "&", "g", "t", ";">>
  /\ escRet = <<"&", "a", "m", "p", ";", "l", "t", ";", "b",
                "&", "a", "m", "p", ";", "g", "t", ";">>

ReviewFields == {"id", "author", "rating", "comment", "createdAt"}

\* C9: the payload of a success response holds the first min(n, 10)
\* upstream reviews in upstream order, each with the five Review fields of
\* the upstream entry; without a reviews field it holds no review.
C9_FetcherNormalization ==
  fetchCalled =>
    IF Has(bodyArg, "reviews")
      THEN LET n == Len(bodyArg.reviews)
           IN  /\ Len(fetchRet.reviews) = (IF n < 10 THEN n ELSE 10)
               /\ \A k \in 1..Len(fetchRet.reviews) :
                    /\ DOMAIN fetchRet.reviews[k] = ReviewFields
                    /\ \A f \in ReviewFields :
                         fetchRet.reviews[k][f] = bodyArg.reviews[k][f]
      ELSE fetchRet.reviews = << >>

C9_Witness ==
  /\ fetchCalled
  /\ Has(bodyArg, "reviews")
  /\ Len(bodyArg.reviews) = 15
  /\ bodyArg.reviews[1].id = <<"r", "1", "5">>
  /\ Len(fetchRet.reviews) = 10
  /\ fetchRet.reviews[10].id = <<"r", "6">>

\* The review ids of the article elements of a fragment, in document order:
\* what stands between each article's opening chunk and the chunk after it.
ArticleIds(html) ==
  LET positions == SelectSeq([k \in 1..Len(html) |-> k],
                             LAMBDA k : html[k] = ArticleOpen)
      idEnd(p)  == CHOOSE q \in (p + 1)..Len(html) :
                     /\ html[q] = AuthorOpen
                     /\ \A j \in (p + 1)..(q - 1) : html[j] # AuthorOpen
  IN  [k \in 1..Len(positions) |->
         SubSeq(html, positions[k] + 1, idEnd(positions[k]) - 1)]

\* C10: a payload with n reviews renders min(n, 10) article elements, those
\* of its first min(n, 10) reviews in their order; with no review the
\* fragment is the container with the heading and nothing else.
C10_RendererTruncation ==
  renderCalled =>
    LET n == Len(renderArg.reviews)
        m == IF n < 10 THEN n ELSE 10
    IN  /\ Len(SelectSeq(renderRet, LAMBDA x : x = ArticleOpen)) = m
        /\ Len(SelectSeq(renderRet, LAMBDA x : x = ArticleClose)) = m
        /\ ArticleIds(renderRet) = [k \in 1..m |-> SubstEach(renderArg.reviews[k].id)]
        /\ n = 0 =>
             renderRet = <<SectionOpen>> \o SubstEach(renderArg.id)
                           \o <<LabelOpen>> \o SubstEach(renderArg.name)
                           \o <<HeadingOpen>> \o SubstEach(renderArg.name)
                           \o <<HeadingClose, SectionClose>>

C10_Witness ==
  /\ renderCalled
  /\ Len(renderArg.reviews) = 15
  /\ renderArg.reviews[1].id = <<"r", "1", "5">>
  /\ Len(ArticleIds(renderRet)) = 10
  /\ ArticleIds(renderRet)[10] = <<"r", "6">>

(***************************************************************************)
(* Further properties of the handler (specification Spec).                 *)
(***************************************************************************)
\* C11: the payload returned for a request of product p has id p, so every
\* fragment sent to reviews/{p}.html opens with the section tagged p.
C11_FragmentTaggedWithRequestedId ==
  \A k \in 1..Len(writeLog) :
    IsPrefix(<<SectionOpen>> \o SubstEach(productIds[writeLog[k].pos])
               \o <<LabelOpen>>,
             writeLog[k].command.Body)

Occurrences(seq, x) == Len(SelectSeq(seq, LAMBDA e : e = x))

\* C15: a successful invocation handles one product per segment of the
\* configured string, duplicates included: the fetches, the writes and the
\* result entries each follow the handler's list position by position, and
\* an identifier configured k times is fetched, written and reported k times.
C15_OrderKeptNoDedup ==
  Succeeded =>
    LET n == Occurrences(PRODUCT_IDS, ",") + 1
    IN  /\ Len(productIds) = n
        /\ Len(fetchLog) = n /\ Len(writeLog) = n /\ Len(results) = n
        /\ \A k \in 1..n :
             /\ fetchLog[k].pos = k
             /\ fetchLog[k].url = <<"https://api.example.com", "/products/">>
                                    \o productIds[k] \o <<"/reviews">>
             /\ writeLog[k].pos = k
             /\ writeLog[k].command.Key =
                  <<"reviews/">> \o productIds[k] \o <<".html">>
             /\ results[k].productId = productIds[k]
        /\ \A j \in 1..n :
             LET id == productIds[j]
                 k  == Occurrences(productIds, id)
             IN  /\ Occurrences([i \in 1..n |-> results[i].productId], id) = k
                 /\ Occurrences([i \in 1..n |-> writeLog[i].command.Key],
                                <<"reviews/">> \o id \o <<".html">>) = k
                 /\ Occurrences([i \in 1..n |-> fetchLog[i].url],
                                fetchLog[j].url) = k
        /\ PRODUCT_IDS = <<"product-a", ",", "product-a">> =>
             /\ productIds = << <<"product-a">>, <<"product-a">> >>
             /\ response.body.results[1] = response.body.results[2]

C15_Witness ==
  /\ Succeeded
  /\ PRODUCT_IDS = <<"product-a", ",", "product-a">>
  /\ Len(response.body.results) = 2
  /\ Len(writeLog) = 2
  /\ writeLog[1].command.Key = writeLog[2].command.Key

(***************************************************************************)
(* Termination (specification SpecLive).                                   *)
(***************************************************************************)
Running == pc \in {"fetch", "json", "send"}

Returned ==
  /\ pc = "done"
  /\ \/ /\ response.statusCode = 200
        /\ failure.stage = "none"
        /\ Len(results) = Len(productIds)
     \/ /\ response.statusCode = 500
        /\ failure.stage # "none"
        /\ failure.pos = idx
        /\ Len(results) = idx - 1

\* C16: a running invocation eventually returns, with the summary of the
\* whole list or with the failure of the first product that failed; it has
\* no result before it returns, and its result does not change afterwards.
C16_Terminates ==
  /\ Running ~> Returned
  /\ [](Running => response = NoResponse)
  /\ [](pc = "done" => Returned)
  /\ [][pc = "done" /\ pc' = "done" => response' = response]_vars

C16_Witness ==
  /\ Returned
  /\ response.statusCode = 200
  /\ Len(productIds) = 3

(***************************************************************************)
(* Two invocations side by side (specification SpecTraced).                *)
(***************************************************************************)
SameAnswersAsBefore == pc = "done" /\ prevRun.ran /\ prevRun.env = envLog

\* C18: an invocation that got the same answers from the upstream and from
\* the store as the invocation before it returns the same result and has
\* issued the same writes, keys and bodies alike.
C18_SameInputsSameRun ==
  SameAnswersAsBefore =>
    /\ response = prevRun.response
    /\ writeLog = prevRun.writes

C18_Witness ==
  /\ SameAnswersAsBefore
  /\ invocations = 2
  /\ response.statusCode = 200
  /\ Len(writeLog) = 2

(***************************************************************************)
(* Rating formatting (specification SpecPure).                             *)
(***************************************************************************)
\* The rating texts of the article elements of a fragment, in document order.
RatingTexts(html) ==
  LET positions  == SelectSeq([k \in 1..Len(html) |-> k],
                              LAMBDA k : html[k] = RatingOpen)
      textEnd(p) == CHOOSE q \in (p + 1)..Len(html) :
                      /\ html[q] = TimeOpen
                      /\ \A j \in (p + 1)..(q - 1) : html[j] # TimeOpen
  IN  [k \in 1..Len(positions) |->
         SubSeq(html, positions[k] + 1, textEnd(positions[k]) - 1)]

DigitChars == {"0", "1", "2", "3", "4", "5", "6", "7", "8", "9"}

DigitValue(c) == CHOOSE d \in 0..9 : Digit(d) = c

RECURSIVE NatOf(_)
NatOf(digits) ==
  IF digits = << >> THEN 0
  ELSE 10 * NatOf(SubSeq(digits, 1, Len(digits) - 1))
         + DigitValue(digits[Len(digits)])

Abs(x) == IF x < 0 THEN 0 - x ELSE x

\* text is an optional "-", one or more digits, "." and one digit, and the
\* number it writes is the tenth nearest to the rating (given in hundredths),
\* the one farther from zero on a tie.
OneFractionalDigit(text, rating) ==
  LET unsigned == IF text # << >> /\ Head(text) = "-" THEN Tail(text) ELSE text
      n        == Len(unsigned)
  IN  /\ (Head(text) = "-") <=> (rating < 0)
      /\ n >= 3
      /\ unsigned[n - 1] = "."
      /\ \A k \in (1..n) \ {n - 1} : unsigned[k] \in DigitChars
      /\ LET tenths == 10 * NatOf(SubSeq(unsigned, 1, n - 2))
                         + DigitValue(unsigned[n])
         IN  /\ Abs(10 * tenths - Abs(rating)) <= 5
             /\ Abs(rating) % 10 = 5 => 10 * tenths = Abs(rating) + 5

\* C19: every rendered review shows its rating with exactly one fractional
\* digit, whatever the precision and the range of the rating: 5 as 5.0,
\* 4 as 4.0, 4.25 as 4.3, and ratings below 0 or above 5 in the same format.
C19_RatingOneDecimal ==
  renderCalled =>
    LET texts == RatingTexts(renderRet)
    IN  /\ Len(texts) = (IF Len(renderArg.reviews) < 10
                           THEN Len(renderArg.reviews) ELSE 10)
        /\ \A k \in 1..Len(texts) :
             LET rating == renderArg.reviews[k].rating
             IN  /\ OneFractionalDigit(texts[k], rating)
                 /\ rating = 500 => texts[k] = <<"5", ".", "0">>
                 /\ rating = 400 => texts[k] = <<"4", ".", "0">>
                 /\ rating = 425 => texts[k] = <<"4", ".", "3">>
                 /\ rating = 650 => texts[k] = <<"6", ".", "5">>
                 /\ rating = -25 => texts[k] = <<"-", "0", ".", "3">>

C19_Witness ==
  /\ renderCalled
  /\ Len(renderArg.reviews) = 10
  /\ renderArg.reviews[1].rating = -25
  /\ renderArg.reviews[7].rating = 425
  /\ renderArg.reviews[8].rating = 500
  /\ renderArg.reviews[10].rating = 650
  /\ RatingTexts(renderRet)[7] = <<"4", ".", "3">>

(***************************************************************************)
(* Direct calls of buildUrl, saveReviewFragment, the mock API handler and  *)
(* the PR-number detection (specification SpecAux).  A behaviour calls one *)
(* of them, fixed by auxFn.                                                *)
(***************************************************************************)
MaxBaseLen == 3

UrlAlphabet == {"https://api.example.com", "/", "v1"}
UrlIds == {<<"product-a">>, <<"product-x">>, << >>}

InitUrl ==
  /\ auxFn = "buildUrl" /\ auxPc = "ready"
  /\ urlBase \in StringsUpTo(UrlAlphabet, MaxBaseLen)
  /\ urlId \in UrlIds
  /\ urlRet = << >>
  /\ InitSaveDefaults /\ InitMockDefaults /\ InitDetectDefaults /\ InitPageDefaults

CallBuildUrl ==
  /\ auxFn = "buildUrl" /\ auxPc = "ready"
  /\ urlRet' = buildUrl(urlBase, urlId)
  /\ auxPc' = "done"
  /\ UNCHANGED <<handlerVars, escVars, renderVars, fetchVars, auxFn, urlBase,
                 urlId, saveVars, mockVars, detectVars, pageVars>>

InitAuxHandler ==
  /\ PRODUCT_IDS = DefaultProductIds
  /\ InitHandler
  /\ tracing = FALSE
  /\ escArg = << >> /\ escRet = << >> /\ escPasses = 0
  /\ renderArg = DefaultPayload /\ renderRet = << >> /\ renderCalled = FALSE
  /\ bodyArg = DefaultBody /\ fetchRet = DefaultPayload /\ fetchCalled = FALSE

(***************************************************************************)
(* buildUrl.                                                               *)
(***************************************************************************)
UrlBuilt == auxFn = "buildUrl" /\ auxPc = "done"

EndsInSlash(str) == str # << >> /\ str[Len(str)] = "/"

\* C17 as stated: for a base URL ending in one or more slashes the built
\* URL has no slash right before /products/.
C17_NoDoubleSlashForAnyTrailingSlashes ==
  (UrlBuilt /\ EndsInSlash(urlBase)) =>
    \A k \in 2..Len(urlRet) : urlRet[k] = "/products/" => urlRet[k - 1] # "/"

\* C17 as amended: the built URL is the base without its last character
\* when that is a slash, followed by /products/{productId}/reviews; a base
\* ending in exactly one slash gives no slash right before /products/, a
\* base ending in two or more keeps all of them but the last.
C17_OneTrailingSlashStripped ==
  UrlBuilt =>
    LET n    == Len(urlBase)
        stem == IF EndsInSlash(urlBase) THEN SubSeq(urlBase, 1, n - 1)
                                         ELSE urlBase
    IN  /\ urlRet = stem \o <<"/products/">> \o urlId \o <<"/reviews">>
        /\ (EndsInSlash(urlBase) /\ ~EndsInSlash(stem)) =>
             /\ urlRet[n] = "/products/"
             /\ n > 1 => urlRet[n - 1] # "/"
        /\ (EndsInSlash(urlBase) /\ EndsInSlash(stem)) =>
             /\ urlRet[n] = "/products/"
             /\ urlRet[n - 1] = "/"

C17_Witness ==
  /\ UrlBuilt
  /\ urlBase = <<"https://api.example.com", "/">>
  /\ urlId = <<"product-a">>
  /\ urlRet = <<"https://api.example.com", "/products/", "product-a", "/reviews">>

(***************************************************************************)
(* saveReviewFragment called on a store that already holds objects.        *)
(***************************************************************************)
MaxHtmlLen == 2

SaveBuckets == {OUTPUT_BUCKET, "other-bucket"}
SaveKeys == {keyOf(<<"product-a">>), keyOf(<<"product-b">>)}
SaveNames == SaveBuckets \X SaveKeys
HtmlAlphabet == {"<section>", "b"}
OldObject == [Body |-> <<"old">>, ContentType |-> "text/plain",
              CacheControl |-> "no-cache"]
Stores == UNION {[held -> {OldObject}] : held \in SUBSET SaveNames}

InitSave ==
  /\ auxFn = "saveReviewFragment" /\ auxPc = "ready"
  /\ saveArg \in [bucket : SaveBuckets, key : SaveKeys,
                  html : StringsUpTo(HtmlAlphabet, MaxHtmlLen)]
  /\ saveBefore \in Stores
  /\ saveStore = saveBefore
  /\ saveSent = << >>
  /\ saveOutcome = "none"
  /\ InitUrlDefaults /\ InitMockDefaults /\ InitDetectDefaults /\ InitPageDefaults

\* lines 13-21 up to the await: the command is built and handed to
\* s3Client.send
SaveIssue ==
  /\ auxFn = "saveReviewFragment" /\ auxPc = "ready"
  /\ saveSent' = Append(saveSent,
                        putObjectCommand(saveArg.bucket, saveArg.key, saveArg.html))
  /\ auxPc' = "sent"
  /\ UNCHANGED <<handlerVars, escVars, renderVars, fetchVars, auxFn, urlVars,
                 saveArg, saveBefore, saveStore, saveOutcome, mockVars,
                 detectVars, pageVars>>

\* the send resolves: the store has applied the command
SaveResolve ==
  /\ auxFn = "saveReviewFragment" /\ auxPc = "sent"
  /\ saveStore' = applyPut(saveStore, saveSent[Len(saveSent)])
  /\ saveOutcome' = "resolved"
  /\ auxPc' = "done"
  /\ UNCHANGED <<handlerVars, escVars, renderVars, fetchVars, auxFn, urlVars,
                 saveArg, saveBefore, saveSent, mockVars, detectVars, pageVars>>

\* the send rejects; a timed-out command may have been applied all the same
SaveReject(applied) ==
  /\ auxFn = "saveReviewFragment" /\ auxPc = "sent"
  /\ saveStore' = IF applied THEN applyPut(saveStore, saveSent[Len(saveSent)])
                             ELSE saveStore
  /\ saveOutcome' = "rejected"
  /\ auxPc' = "done"
  /\ UNCHANGED <<handlerVars, escVars, renderVars, fetchVars, auxFn, urlVars,
                 saveArg, saveBefore, saveSent, mockVars, detectVars, pageVars>>

SaveTarget == <<saveArg.bucket, saveArg.key>>

\* C12: saveReviewFragment hands the store exactly one write, addressed to
\* (bucket, key), with body html, content type text/html; charset=utf-8 and
\* cache control max-age=60; once the call has resolved the object at
\* (bucket, key) holds html with those attributes whatever the store held
\* there before, and every other name holds what it held before, or nothing.
C12_UnconditionalSingleWrite ==
  /\ Len(saveSent) <= 1
  /\ \A k \in 1..Len(saveSent) :
       saveSent[k] = [Bucket |-> saveArg.bucket, Key |-> saveArg.key,
                      Body |-> saveArg.html,
                      ContentType |-> "text/html; charset=utf-8",
                      CacheControl |-> "max-age=60"]
  /\ saveOutcome = "resolved" =>
       /\ Len(saveSent) = 1
       /\ DOMAIN saveStore = DOMAIN saveBefore \cup {SaveTarget}
       /\ saveStore[SaveTarget] = [Body |-> saveArg.html,
                                   ContentType |-> "text/html; charset=utf-8",
                                   CacheControl |-> "max-age=60"]
       /\ \A name \in DOMAIN saveStore \ {SaveTarget} :
            saveStore[name] = saveBefore[name]

\* an object was held at (bucket, key) and another elsewhere, and the call
\* resolved
C12_Witness ==
  /\ saveOutcome = "resolved"
  /\ SaveTarget \in DOMAIN saveBefore
  /\ saveBefore[SaveTarget] = OldObject
  /\ DOMAIN saveBefore # {SaveTarget}
  /\ saveArg.html = <<"<section>", "b">>
  /\ saveStore[SaveTarget].Body = saveArg.html

(***************************************************************************)
(* The mock API handler.  A path is a sequence of tokens: "/" and slash-   *)
(* free words.  mockData is a plain object, so a lookup of a name it does  *)
(* not own falls through to Object.prototype.  A fixture's reviews are     *)
(* held by their ids.                                                      *)
(***************************************************************************)
MaxPathLen == 3
MaxAroundLen == 2

mockData ==
  (<<"product-a">> :>
     [productId   |-> <<"product-a">>,
      productName |-> "Wireless Headphones",
      reviews     |-> <<"rev-a-10", "rev-a-11", "rev-a-12", "rev-a-2", "rev-a-3",
                        "rev-a-4", "rev-a-5", "rev-a-6", "rev-a-7", "rev-a-8",
                        "rev-a-9", "rev-a-10", "rev-a-11", "rev-a-12">>]) @@
  (<<"product-b">> :>
     [productId   |-> <<"product-b">>,
      productName |-> "Smart Watch",
      reviews     |-> <<"rev-b-10", "rev-b-1", "rev-b-2", "rev-b-3", "rev-b-4",
                        "rev-b-5", "rev-b-6", "rev-b-7", "rev-b-8", "rev-b-9",
                        "rev-b-10", "rev-b-11", "rev-b-12">>])

\* what a property read finds on Object.prototype
ObjectPrototype ==
  (<<"constructor">> :> [inherited |-> "function Object"]) @@
  (<<"__proto__">>   :> [inherited |-> "Object.prototype"])

Undefined == [undefined |-> TRUE]

\* mockData[productId]
mockDataGet(productId) ==
  IF productId \in DOMAIN mockData THEN mockData[productId]
  ELSE IF productId \in DOMAIN ObjectPrototype THEN ObjectPrototype[productId]
  ELSE Undefined

\* JSON.stringify: a function has no JSON text, Object.prototype is {}
jsonStringify(value) ==
  IF Has(value, "inherited")
  THEN IF value.inherited = "Object.prototype" THEN [json |-> "{}"] ELSE Undefined
  ELSE [json |-> value]

\* a || b on strings and undefined: both undefined and '' are falsy
orElse(a, b) == IF a = << >> THEN b ELSE a

\* an absent field reads as undefined, which || treats as it treats ''
eventField(event, name) == IF Has(event, name) THEN event[name] ELSE << >>

\* line 64
pathOfEvent(event) ==
  orElse(eventField(event, "path"),
    orElse(eventField(event, "rawPath"),
      orElse(IF Has(event, "requestContext")
             THEN eventField(event.requestContext, "path") ELSE << >>,
             << >>)))

\* positions where /\/products\/([^\/]+)\/reviews/ matches, given by the
\* position of its first slash and of the slash that ends the group
matchesAt(path, i, j) ==
  /\ i + 3 < j /\ j + 1 <= Len(path)
  /\ path[i] = "/" /\ path[i + 1] = "products" /\ path[i + 2] = "/"
  /\ \A k \in (i + 3)..(j - 1) : path[k] # "/"
  /\ path[j] = "/" /\ path[j + 1] = "reviews"

NoMatch == [matched |-> FALSE]

\* String.prototype.match with a non-global pattern: the leftmost match
match(path) ==
  LET starts == {i \in 1..Len(path) : \E j \in 1..Len(path) : matchesAt(path, i, j)}
  IN  IF starts = {} THEN NoMatch
      ELSE LET i == CHOOSE s \in starts : \A t \in starts : s <= t
               j == CHOOSE e \in 1..Len(path) : matchesAt(path, i, e)
           IN  [matched |-> TRUE, group1 |-> SubSeq(path, i + 3, j - 1)]

MockHeaders == [contentType |-> "application/json"]
MockEndpoints == <<"/products/product-a/reviews", "/products/product-b/reviews">>
MockListing == [message |-> "Customer Reviews Mock API", endpoints |-> MockEndpoints]
MockInvalidPath == [error |-> "Invalid path. Use /products/{productId}/reviews",
                    availableEndpoints |-> MockEndpoints]
MockNotFound == [error |-> "Product not found"]

mockHandler(event) ==
  LET path == pathOfEvent(event)
      m    == match(path)
  IN  IF path = <<"/">> \/ path = << >>
      THEN [statusCode |-> 200, headers |-> MockHeaders,
            body |-> jsonStringify(MockListing)]
      ELSE IF ~m.matched
      THEN [statusCode |-> 400, headers |-> MockHeaders,
            body |-> jsonStringify(MockInvalidPath)]
      ELSE LET data == mockDataGet(m.group1)
           IN  IF data = Undefined
               THEN [statusCode |-> 404, headers |-> MockHeaders,
                     body |-> jsonStringify(MockNotFound)]
               ELSE [statusCode |-> 200, headers |-> MockHeaders,
                     body |-> jsonStringify(data)]

MockAlphabet == {"/", "products", "reviews", "product-a", "product-b",
                 "unknown", "constructor", "__proto__", "api"}
MockIdTokens == {"product-a", "product-b", "unknown", "constructor",
                 "__proto__", "api"}
MockAround == StringsUpTo({"/", "api"}, MaxAroundLen)
MockPaths ==
  StringsUpTo(MockAlphabet, MaxPathLen)
    \cup {before \o <<"/", "products", "/", id, "/", "reviews">> \o after :
            before \in MockAround, id \in MockIdTokens, after \in MockAround}

\* the fields in which API Gateway (REST, HTTP API) delivers the path
MockEvents ==
  {[httpMethod |-> "GET"]}
    \cup {[httpMethod |-> "GET", path |-> p] : p \in MockPaths}
    \cup {[httpMethod |-> "GET", rawPath |-> p] : p \in MockPaths}
    \cup {[httpMethod |-> "GET", requestContext |-> [path |-> p]] : p \in MockPaths}

InitMock ==
  /\ auxFn = "mockHandler" /\ auxPc = "ready"
  /\ mockEvent \in MockEvents
  /\ mockRet = NoMockResponse
  /\ InitUrlDefaults /\ InitSaveDefaults /\ InitDetectDefaults /\ InitPageDefaults

CallMockHandler ==
  /\ auxFn = "mockHandler" /\ auxPc = "ready"
  /\ mockRet' = mockHandler(mockEvent)
  /\ auxPc' = "done"
  /\ UNCHANGED <<handlerVars, escVars, renderVars, fetchVars, auxFn, urlVars,
                 saveVars, mockEvent, detectVars, pageVars>>

MockReturned == auxFn = "mockHandler" /\ auxPc = "done"

RequestPath == pathOfEvent(mockEvent)

\* the path is exactly /products/{id}/reviews for a non-empty slash-free id
IsReviewsPath(p) ==
  /\ Len(p) >= 6
  /\ SubSeq(p, 1, 3) = <<"/", "products", "/">>
  /\ SubSeq(p, Len(p) - 1, Len(p)) = <<"/", "reviews">>
  /\ \A k \in 4..(Len(p) - 2) : p[k] # "/"

RequestedId == SubSeq(RequestPath, 4, Len(RequestPath) - 2)

IsFixtureBody(body) == \E id \in DOMAIN mockData : body = [json |-> mockData[id]]

\* C13: a request for /products/{id}/reviews is answered 200 with the
\* fixture of id when id is product-a or product-b and 404 for every other
\* id; a request for / is answered 200 with the endpoint listing.
C13_MockRouting ==
  MockReturned =>
    /\ IsReviewsPath(RequestPath) =>
         IF RequestedId \in {<<"product-a">>, <<"product-b">>}
         THEN /\ mockRet.statusCode = 200
              /\ mockRet.body = [json |-> mockData[RequestedId]]
         ELSE mockRet.statusCode = 404
    /\ RequestPath = <<"/">> =>
         /\ mockRet.statusCode = 200
         /\ mockRet.body = [json |-> MockListing]

\* C14: a request whose path is neither the root path nor exactly
\* /products/{productId}/reviews is answered 400 and never with a fixture.
C14_MockRejectsOtherPaths ==
  (MockReturned /\ RequestPath \notin {<<"/">>, << >>}
     /\ ~IsReviewsPath(RequestPath)) =>
    /\ mockRet.statusCode = 400
    /\ ~IsFixtureBody(mockRet.body)

(***************************************************************************)
(* The pipeline's stage 'Checkout Code & Detect PR Number'.  A branch name *)
(* is a sequence of chunks: "pr" in either case, the separators, digits,   *)
(* and "x" for any other letter.                                           *)
(***************************************************************************)
MaxBranchLen == 5

Null == << >>
BranchDigits == {"0", "1", "2", "3", "4", "5", "6", "7", "8", "9"}
PrChunks == {"pr", "PR", "Pr", "pR"}
PrSeparators == {"-", "_"}

\* branchName.replaceFirst('^origin/', '')
stripOrigin(name) ==
  IF name # << >> /\ name[1] = "origin/" THEN SubSeq(name, 2, Len(name)) ELSE name

\* (\d+) matched from position i: the longest run of digits
digitRunFrom(str, i) ==
  LET ends == {j \in i..Len(str) : \A k \in i..j : str[k] \in BranchDigits}
  IN  SubSeq(str, i, CHOOSE j \in ends : \A e \in ends : e <= j)

\* /(?i)pr[-_]?(\d+)/ matches at position i
pattern1At(str, i) ==
  /\ str[i] \in PrChunks
  /\ \/ i + 1 <= Len(str) /\ str[i + 1] \in BranchDigits
     \/ /\ i + 2 <= Len(str)
        /\ str[i + 1] \in PrSeparators
        /\ str[i + 2] \in BranchDigits

\* matcher.find() then group(1): the leftmost match
pattern1(str) ==
  LET starts == {i \in 1..Len(str) : pattern1At(str, i)}
  IN  IF starts = {} THEN Null
      ELSE LET i == CHOOSE s \in starts : \A t \in starts : s <= t
           IN  IF str[i + 1] \in BranchDigits THEN digitRunFrom(str, i + 1)
                                               ELSE digitRunFrom(str, i + 2)

\* /(\d+)$/
pattern2(str) ==
  LET starts == {i \in 1..Len(str) : \A k \in i..Len(str) : str[k] \in BranchDigits}
  IN  IF starts = {} THEN Null
      ELSE SubSeq(str, CHOOSE s \in starts : \A t \in starts : s <= t, Len(str))

\* /(\d+)/
pattern3(str) ==
  LET starts == {i \in 1..Len(str) : str[i] \in BranchDigits}
  IN  IF starts = {} THEN Null
      ELSE digitRunFrom(str, CHOOSE s \in starts : \A t \in starts : s <= t)

NotDetected == [number |-> Null, method |-> "none"]

detectFromNameTrailingFirst(str) ==
  IF pattern2(str) # Null THEN [number |-> pattern2(str), method |-> "pattern2"]
  ELSE IF pattern1(str) # Null THEN [number |-> pattern1(str), method |-> "pattern1"]
  ELSE IF pattern3(str) # Null THEN [number |-> pattern3(str), method |-> "pattern3"]
  ELSE NotDetected

\* lines 87-109: the three patterns, each tried only if none before it matched
detectFromName(str) ==
  IF pattern1(str) # Null THEN [number |-> pattern1(str), method |-> "pattern1"]
  ELSE IF pattern2(str) # Null THEN [number |-> pattern2(str), method |-> "pattern2"]
  ELSE IF pattern3(str) # Null THEN [number |-> pattern3(str), method |-> "pattern3"]
  ELSE NotDetected

CommitHash == "abc1234"

\* "${branchName}-${commitHash}".replaceAll('[^a-zA-Z0-9-]', '-')
uniqueId(name) ==
  [k \in 1..Len(name) |-> IF name[k] = "_" THEN "-" ELSE name[k]]
    \o <<"-", CommitHash>>

BranchAlphabet == {"pr", "PR", "-", "_", "1", "2", "x"}
BranchNames == StringsUpTo(BranchAlphabet, MaxBranchLen) \ {<< >>}
ApiNumbers == {<<"7">>}

InitDetect ==
  /\ auxFn = "detectPrNumber" /\ auxPc = "ready"
  /\ branchName \in BranchNames \cup {<<"origin/">> \o b : b \in BranchNames}
  /\ apiAnswer = "none"
  /\ prNumber = <<"default">>
  /\ prMethod = "none"
  /\ InitUrlDefaults /\ InitSaveDefaults /\ InitMockDefaults /\ InitPageDefaults

\* lines 57-109, and line 172 when a pattern matched
DetectFromName ==
  /\ auxFn = "detectPrNumber" /\ auxPc = "ready"
  /\ LET detected == detectFromName(stripOrigin(branchName))
     IN  IF detected.number # Null
         THEN /\ prNumber' = detected.number
              /\ prMethod' = detected.method
              /\ auxPc' = "done"
         ELSE /\ auxPc' = "api"
              /\ UNCHANGED <<prNumber, prMethod>>
  /\ UNCHANGED <<handlerVars, escVars, renderVars, fetchVars, auxFn, urlVars,
                 saveVars, mockVars, pageVars, branchName, apiAnswer>>

\* lines 112-159 and 172: the lookup lists an open PR for the branch
ApiFinds(number) ==
  /\ auxFn = "detectPrNumber" /\ auxPc = "api"
  /\ apiAnswer' = "found"
  /\ prNumber' = number
  /\ prMethod' = "api"
  /\ auxPc' = "done"
  /\ UNCHANGED <<handlerVars, escVars, renderVars, fetchVars, auxFn, urlVars,
                 saveVars, mockVars, pageVars, branchName>>

\* lines 112-172: the lookup lists nothing, or throws and is caught; the
\* unique id is used
ApiFindsNothing(why) ==
  /\ auxFn = "detectPrNumber" /\ auxPc = "api"
  /\ apiAnswer' = why
  /\ prNumber' = uniqueId(stripOrigin(branchName))
  /\ prMethod' = "fallback"
  /\ auxPc' = "done"
  /\ UNCHANGED <<handlerVars, escVars, renderVars, fetchVars, auxFn, urlVars,
                 saveVars, mockVars, pageVars, branchName>>

Detected == auxFn = "detectPrNumber" /\ auxPc = "done"

FinalBranch == IF branchName # << >> /\ branchName[1] = "origin/"
               THEN Tail(branchName) ELSE branchName

IsDigitRun(str, a, b) ==
  /\ 1 <= a /\ a <= b /\ b <= Len(str)
  /\ \A k \in a..b : str[k] \in BranchDigits
  /\ b < Len(str) => str[b + 1] \notin BranchDigits

\* the numbers N of the occurrences of pr-N, PR-N, pr_N in str
SeparatedPrNumbers(str) ==
  {SubSeq(str, a, b) : <<a, b>> \in
     {ab \in (1..Len(str)) \X (1..Len(str)) :
        /\ ab[1] >= 3
        /\ str[ab[1] - 2] \in PrChunks
        /\ str[ab[1] - 1] \in PrSeparators
        /\ IsDigitRun(str, ab[1], ab[2])}}

HasDigits(str) == \E k \in 1..Len(str) : str[k] \in BranchDigits

FallbackOnlyWithoutDigitsAndPr ==
  prMethod = "fallback" =>
    /\ ~HasDigits(FinalBranch)
    /\ apiAnswer \in {"empty", "exception"}

PrOccursAt(str, i) ==
  /\ str[i] \in PrChunks
  /\ i < Len(str)
  /\ \/ str[i + 1] \in BranchDigits
     \/ str[i + 1] \in PrSeparators /\ i + 1 < Len(str)
                                    /\ str[i + 2] \in BranchDigits

MaxIdLen == 2
MaxListLen == 2

DefaultRegion == "us-east-1"

\* lines 43-136 before ${esiIncludes}, and lines 137-157 after it
PageHead == "<!DOCTYPE html>...<main class=\"reviews-container\">"
PageTail == "<!-- Fallback message if ESI processing fails --><esi:remove>...</html>"

EsiCommentOpen == "<!-- ESI include for "
EsiCommentClose == " reviews -->"
IncludeOpen == "<esi:include src=\""
IncludeClose == "\" />"

\* line 27: the default applies to an absent region
regionOf(options) ==
  IF Has(options, "bucketRegion") THEN options.bucketRegion ELSE DefaultRegion

\* line 31
s3BaseUrl(options) ==
  <<"https://", options.bucketName, ".s3.", regionOf(options), ".amazonaws.com">>

\* lines 36-39
esiInclude(options, productId) ==
  <<EsiCommentOpen>> \o productId \o <<EsiCommentClose, IncludeOpen>>
    \o s3BaseUrl(options) \o <<"/", "reviews/">> \o productId
    \o <<".html", IncludeClose>>

RECURSIVE joinIncludes(_, _)
joinIncludes(options, ids) ==
  IF ids = << >> THEN << >>
  ELSE esiInclude(options, Head(ids)) \o joinIncludes(options, Tail(ids))

renderMainPageWithEsi(options) ==
  <<PageHead>> \o joinIncludes(options, options.productIds) \o <<PageTail>>

PageIdAlphabet == {"product-a", "/", "?", "\""}
PageIds == StringsUpTo(PageIdAlphabet, MaxIdLen)
PageLists == UNION {[1..n -> PageIds] : n \in 0..MaxListLen}
PageOptions ==
  [productIds : PageLists, bucketName : {OUTPUT_BUCKET}]
    \cup [productIds : PageLists, bucketName : {OUTPUT_BUCKET},
          bucketRegion : {"eu-west-1"}]

InitPage ==
  /\ auxFn = "renderMainPageWithEsi" /\ auxPc = "ready"
  /\ pageArg \in PageOptions
  /\ pageRet = << >>
  /\ InitUrlDefaults /\ InitSaveDefaults /\ InitMockDefaults
  /\ InitDetectDefaults

CallRenderMainPage ==
  /\ auxFn = "renderMainPageWithEsi" /\ auxPc = "ready"
  /\ pageRet' = renderMainPageWithEsi(pageArg)
  /\ auxPc' = "done"
  /\ UNCHANGED <<handlerVars, escVars, renderVars, fetchVars, auxFn, urlVars,
                 saveVars, mockVars, detectVars, pageArg>>

PageRendered == auxFn = "renderMainPageWithEsi" /\ auxPc = "done"

\* the src values of the page's include directives, in page order: what
\* stands between src=" and the next double quote
IncludeSrcs(page) ==
  LET opens == SelectSeq([p \in 1..Len(page) |-> p],
                         LAMBDA p : page[p] = IncludeOpen)
      closes(p) == {q \in (p + 1)..Len(page) : page[q] \in {"\"", IncludeClose}}
      endOf(p) == CHOOSE q \in closes(p) : \A r \in closes(p) : q <= r
  IN  [k \in 1..Len(opens) |-> SubSeq(page, opens[k] + 1, endOf(opens[k]) - 1)]

\* the object key a URL names: its path, which ends at ? or #, without the
\* leading slash
KeyNamedBy(url) ==
  LET stops == {q \in 7..Len(url) : url[q] \in {"?", "#"}}
      last  == IF stops = {} THEN Len(url)
               ELSE (CHOOSE q \in stops : \A r \in stops : q <= r) - 1
  IN  SubSeq(url, 7, last)

ExpectedSrc(productId) ==
  <<"https://", pageArg.bucketName, ".s3.",
    IF Has(pageArg, "bucketRegion") THEN pageArg.bucketRegion ELSE "us-east-1",
    ".amazonaws.com", "/", "reviews/">> \o productId \o <<".html">>

\* C24: the page has one include directive per listed identifier, in list
\* order, whose source is
\* https://{bucketName}.s3.{bucketRegion}.amazonaws.com/reviews/{productId}.html
\* with the region defaulting to us-east-1, and the object that source
\* names is the key under which the orchestrator stores the fragment.
C24_IncludesNameStoredKeys ==
  PageRendered =>
    LET srcs == IncludeSrcs(pageRet)
    IN  /\ Len(srcs) = Len(pageArg.productIds)
        /\ \A k \in 1..Len(srcs) :
             /\ srcs[k] = ExpectedSrc(pageArg.productIds[k])
             /\ Len(srcs[k]) >= 7
             /\ KeyNamedBy(srcs[k]) = keyOf(pageArg.productIds[k])

(***************************************************************************)
(* The specification of the direct calls.                                  *)
(***************************************************************************)
InitAux ==
  /\ InitAuxHandler
  /\ \/ InitUrl
     \/ InitSave
     \/ InitMock
     \/ InitDetect
     \/ InitPage

NextAux ==
  \/ CallBuildUrl
  \/ SaveIssue
  \/ SaveResolve
  \/ \E applied \in BOOLEAN : SaveReject(applied)
  \/ CallMockHandler
  \/ DetectFromName
  \/ \E number \in ApiNumbers : ApiFinds(number)
  \/ \E why \in {"empty", "exception"} : ApiFindsNothing(why)
  \/ CallRenderMainPage

SpecAux == InitAux /\ [][NextAux]_vars

(***************************************************************************)
(* The data flow of an invocation, read off the answers it was given.      *)
(***************************************************************************)
\* the answers that completed a fetchProductReviews call: the body was read
FetchedOk == SelectSeq(envLog, LAMBDA e : e.op = "json" /\ Has(e, "body"))

\* those of them whose payload the renderer accepted
RenderedOk ==
  SelectSeq(FetchedOk, LAMBDA e : ~renderThrows(payloadOfBody(e.body)))

\* the writes the store has acknowledged
StoredOk == SelectSeq(envLog, LAMBDA e : e.op = "send" /\ Has(e, "resolved"))

\* C21: in every state of an invocation the n-th write attempted is the
\* write of list position n, and by then the fetches of positions 1..n have
\* completed and their payloads were rendered; the result entries are as
\* many as the acknowledged writes; the completed fetches are at most one
\* more than the attempted writes.
C21_WriteAfterFetch ==
  tracing =>
    /\ \A n \in 1..Len(fetchLog) : fetchLog[n].pos = n
    /\ Len(FetchedOk) <= Len(fetchLog)
    /\ \A n \in 1..Len(writeLog) :
         /\ writeLog[n].pos = n
         /\ n <= Len(FetchedOk)
         /\ ~renderThrows(payloadOfBody(FetchedOk[n].body))
         /\ writeLog[n].command.Key = keyOf(productIds[n])
    /\ Len(results) = Len(StoredOk)
    /\ Len(FetchedOk) - Len(writeLog) \in {0, 1}

\* the second product was fetched but could not be rendered, after the
\* first was written
C21_Witness ==
  /\ tracing
  /\ pc = "done"
  /\ failure.stage = "render"
  /\ Len(FetchedOk) = 2
  /\ Len(writeLog) = 1
  /\ Len(results) = 1

(***************************************************************************)
(* The store after a failed invocation.                                    *)
(***************************************************************************)
\* the store as the running invocation found it
StartStore == IF prevRun.ran THEN prevRun.store ELSE << >>

FailedAt(k) == pc = "done" /\ failure.stage # "none" /\ failure.pos = k

NameOf(i) == <<OUTPUT_BUCKET, keyOf(productIds[i])>>

ObjectOfWrite(n) ==
  [Body |-> writeLog[n].command.Body,
   ContentType |-> writeLog[n].command.ContentType,
   CacheControl |-> writeLog[n].command.CacheControl]

SameAsAtStart(name) ==
  /\ name \in DOMAIN objects <=> name \in DOMAIN StartStore
  /\ name \in DOMAIN objects => objects[name] = StartStore[name]

\* the last position before k that wrote the object of position i
LastWriterBefore(k, i) ==
  CHOOSE j \in 1..(k - 1) :
    /\ NameOf(j) = NameOf(i)
    /\ \A l \in (j + 1)..(k - 1) : NameOf(l) # NameOf(i)

OwnWriteFailed(k) == failure.stage = "send" /\ Len(writeLog) = k

\* the objects of the positions before k hold what was last written to them
EarlierWritesKept(k) ==
  \A i \in 1..(k - 1) :
    /\ NameOf(i) \in DOMAIN objects
    /\ \/ objects[NameOf(i)] = ObjectOfWrite(LastWriterBefore(k, i))
       \/ /\ OwnWriteFailed(k) /\ NameOf(k) = NameOf(i)
          /\ objects[NameOf(i)] = ObjectOfWrite(k)

\* the 500 result carries the error message and nothing else
FailureResultSilent ==
  /\ response.statusCode = 500
  /\ DOMAIN response.body = {"error"}
  /\ response.body.error = failure.message

\* C22 as stated: after a failure at position k the objects of the
\* positions before k hold their new content, the store is as the
\* invocation found it at the object of position k (unless the write of k
\* was the failing step) and at the objects of all later positions, and
\* the failure result says nothing of the keys written.
C22_NoRollbackLaterPositionsUntouched ==
  tracing =>
    \A k \in 1..Len(productIds) :
      FailedAt(k) =>
        /\ EarlierWritesKept(k)
        /\ OwnWriteFailed(k) \/ SameAsAtStart(NameOf(k))
        /\ \A i \in (k + 1)..Len(productIds) : SameAsAtStart(NameOf(i))
        /\ FailureResultSilent

\* C22 as amended: the same, where the store is as the invocation found it
\* at every object that is not the object of a position before k: an
\* identifier listed again at position k or later names an object that an
\* earlier position has already rewritten.
C22_NoRollbackOtherObjectsUntouched ==
  tracing =>
    \A k \in 1..Len(productIds) :
      FailedAt(k) =>
        /\ EarlierWritesKept(k)
        /\ \A name \in (DOMAIN objects \cup DOMAIN StartStore
                          \cup {NameOf(i) : i \in k..Len(productIds)})
                         \ {NameOf(i) : i \in 1..(k - 1)} :
             \/ SameAsAtStart(name)
             \/ /\ OwnWriteFailed(k) /\ name = NameOf(k)
                /\ name \in DOMAIN objects
                /\ objects[name] = ObjectOfWrite(k)
        /\ FailureResultSilent

\* the second invocation rewrote the object of position 1 with other
\* content and failed at position 2, whose object the first invocation had
\* written
C22_Witness ==
  /\ tracing
  /\ Len(productIds) = 2
  /\ FailedAt(2)
  /\ failure.stage = "fetch"
  /\ NameOf(1) # NameOf(2)
  /\ NameOf(1) \in DOMAIN StartStore
  /\ NameOf(2) \in DOMAIN StartStore
  /\ objects[NameOf(1)] # StartStore[NameOf(1)]
  /\ objects[NameOf(2)] = StartStore[NameOf(2)]

(***************************************************************************)
(* The work list and the configured string.                                *)
(***************************************************************************)
CommaPositions == {p \in 1..Len(PRODUCT_IDS) : PRODUCT_IDS[p] = ","}

SegmentCount == Cardinality(CommaPositions) + 1

NthComma(k) ==
  CHOOSE p \in CommaPositions : Cardinality({q \in CommaPositions : q < p}) = k - 1

\* the k-th stretch of the configured string between commas
Segment(k) ==
  SubSeq(PRODUCT_IDS,
         IF k = 1 THEN 1 ELSE NthComma(k - 1) + 1,
         IF k = SegmentCount THEN Len(PRODUCT_IDS) ELSE NthComma(k) - 1)

\* id is seg without the spaces around it
IsTrimOf(id, seg) ==
  /\ id = << >> \/ (id[1] # " " /\ id[Len(id)] # " ")
  /\ \E a, b \in 0..Len(seg) :
       /\ a + b <= Len(seg)
       /\ \A p \in 1..a : seg[p] = " "
       /\ \A p \in (Len(seg) - b + 1)..Len(seg) : seg[p] = " "
       /\ id = SubSeq(seg, a + 1, Len(seg) - b)

\* C23: whatever the configured string, an invocation has a work list of
\* one identifier per comma-separated segment, hence at least one, each the
\* segment without the spaces around it, empty ones included; it starts by
\* fetching the first and fails only in a fetch, a render or a write; every
\* position it reaches is fetched at /products/{id}/reviews and every write
\* goes to reviews/{id}.html; a run that succeeds has fetched, written and
\* reported every position.
C23_EverySegmentProcessed ==
  pc # "idle" =>
    /\ Len(productIds) = SegmentCount
    /\ Len(productIds) >= 1
    /\ \A k \in 1..Len(productIds) : IsTrimOf(productIds[k], Segment(k))
    /\ Len(fetchLog) >= 1
    /\ failure.stage \in {"none", "fetch", "json", "render", "send"}
    /\ \A n \in 1..Len(fetchLog) :
         /\ fetchLog[n].pos = n
         /\ fetchLog[n].url = API_BASE_URL \o <<"/products/">> \o productIds[n]
                                \o <<"/reviews">>
    /\ \A n \in 1..Len(writeLog) :
         /\ writeLog[n].command.Bucket = OUTPUT_BUCKET
         /\ writeLog[n].command.Key = <<"reviews/">> \o productIds[n] \o <<".html">>
    /\ \A n \in 1..Len(results) :
         /\ results[n].productId = productIds[n]
         /\ <<OUTPUT_BUCKET, <<"reviews/">> \o productIds[n] \o <<".html">>>>
              \in DOMAIN objects
    /\ Succeeded =>
         /\ Len(fetchLog) = SegmentCount
         /\ Len(writeLog) = SegmentCount
         /\ Len(results) = SegmentCount

\* the empty string is one empty identifier, fetched and stored
C23_Witness ==
  /\ PRODUCT_IDS = << >>
  /\ Succeeded
  /\ productIds = << << >> >>
  /\ fetchLog[1].url = API_BASE_URL \o <<"/products/", "/reviews">>
  /\ <<OUTPUT_BUCKET, <<"reviews/", ".html">>>> \in DOMAIN objects

==========================================================================
